---- MODULE Spec2Model ----
(***************************************************************************)
(* The request orchestrator of the design-extraction service               *)
(* (app/services/pipeline.py) with the two file locks of                   *)
(* app/core/process_lock.py.                                               *)
(*                                                                         *)
(* One request is one call of ImageProcessingPipeline.process: a coroutine *)
(* on the event loop that runs five stages one after the other.  Each      *)
(* stage creates its units of work, awaits asyncio.gather over them and    *)
(* goes on when all have returned, or leaves through the except clause     *)
(* when one has raised.  Downloads and extractions are coroutines, the     *)
(* background removals, the upscalings and the saves are                   *)
(* asyncio.to_thread calls, that is, worker threads.                       *)
(*                                                                         *)
(* The stage functions themselves (downloader.download, extractor run,     *)
(* rmbg/birefnet run, upscaler run, Image.save) are callees of the         *)
(* orchestrator: here each of them returns or raises, whatever the cause.  *)
(* (With the ModelManager and the RmbgSettings of this source tree the     *)
(* background-removal calls can only raise: rmbg/process.py reads          *)
(* model_manager.rmbg_processor and settings.PENUMBRA_LOWER_BOUND,         *)
(* birefnet/process.py reads model_manager.birefnet_model, and none of     *)
(* them is ever set.  The orchestrator is modelled for any outcome of its  *)
(* callees, so the stages after matting are covered as pipeline.py writes  *)
(* them.)                                                                  *)
(***************************************************************************)
EXTENDS Integers, FiniteSets, Sequences, TLC

\* Number of requests the service handles in one run of the model.
MaxRequests == 2

\* app/config.py:27
UPSCALER_CONCURRENCY_LIMIT == 1

Requests == 1..MaxRequests

\* The two lanes of a request (request.output.front / request.output.back).
Lanes == {"front", "back"}

\* The keys of the dictionaries of _remove_backgrounds, _upscale_images and
\* _save_images: lane x background-removal model.
Keys == {"front_rmbg", "front_birefnet", "back_rmbg", "back_birefnet"}

LaneOf(u) ==
    IF u \in {"front", "front_rmbg", "front_birefnet"} THEN "front" ELSE "back"

\* The stages of process, in the order of its body.
StageSeq == <<"download", "extract", "remove", "upscale", "save">>

Stages == {StageSeq[i] : i \in 1..Len(StageSeq)}

StageIndex(s) == CHOOSE i \in 1..Len(StageSeq) : StageSeq[i] = s

\* The units of work a stage creates.
Units(s) == IF s \in {"download", "extract"} THEN Lanes ELSE Keys

ThreadStagesSaveOnLoop == {"remove", "upscale"}

\* The stages whose units run in worker threads (asyncio.to_thread).
ThreadStages == {"remove", "upscale", "save"}

\* The stages whose callee is a plain function, which runs to its end on the
\* thread that calls it: rmbg_process.run, birefnet_process.run,
\* upscaler_process.run and Image.save.
BlockingStages == {"remove", "upscale", "save"}

Tasks == UNION {{<<s, u>> : u \in Units(s)} : s \in Stages}

NoHolder == <<>>

VARIABLES
    pc,              \* pc[r]: where the coroutine process(request r) stands
    status,          \* status[r][t]: state of unit of work t of request r
    responded,       \* responded[r]: process returned a ProcessResponse
    raised,          \* raised[r]: process left by raising
    isnet_lock,      \* holder of process_lock.isnet_lock, or NoHolder
    realesrgan_lock, \* holder of process_lock.realesrgan_lock, or NoHolder
    dl,              \* one call of ImageDownloader.download
    ex,              \* one call of the extractor's run
    gf,              \* one call of rmbg_utils.apply_guided_filter
    up,              \* one call of the upscaler's run
    hd,              \* one call of the request handler process_design
    mt,              \* one call of a matte refinement function
    mm,              \* the ModelManager and the call made on it
    fl,              \* the images of one request on their way to the response
    sv               \* the output directory and the calls of _save_images

\* The calls that are modelled one at a time, each under a specification of
\* its own.
calls == <<dl, ex, gf, up, hd, mt, mm, fl, sv>>

vars == <<pc, status, responded, raised, isnet_lock, realesrgan_lock, calls>>

\* No call of that kind is being followed.
Idle == [at |-> "idle"]

InitCallsIdle ==
    /\ dl = Idle
    /\ ex = Idle
    /\ gf = Idle
    /\ up = Idle
    /\ hd = Idle
    /\ mt = Idle
    /\ mm = Idle /\ fl = Idle /\ sv = Idle

InitPipeline ==
    /\ pc = [r \in Requests |-> "idle"]
    /\ status = [r \in Requests |-> [t \in Tasks |-> "none"]]
    /\ responded = [r \in Requests |-> FALSE]
    /\ raised = [r \in Requests |-> FALSE]
    /\ isnet_lock = NoHolder
    /\ realesrgan_lock = NoHolder

Init == InitPipeline /\ InitCallsIdle

\* --------------------------------------------------------------------------
\* The file locks.  process_lock.py constructs both FileLock objects; neither
\* pipeline.py nor any stage module imports them, so a worker call neither
\* acquires a lock when it begins nor releases one when it ends.

LockOnCallAcquire(lock, who) == IF lock = NoHolder THEN who ELSE lock

\* The lock after worker call `who` has begun.
LockOnCall(lock, who) == lock

\* The lock after worker call `who` has ended (returned or raised).
LockOnExit(lock, who) == lock

\* --------------------------------------------------------------------------
\* asyncio.gather(*tasks) without return_exceptions.

StageJoinedAny(r, s) == \E u \in Units(s) : status[r][<<s, u>>] = "ok"

\* gather returns its list of results: every unit of the stage has returned.
StageJoined(r, s) == \A u \in Units(s) : status[r][<<s, u>>] = "ok"

\* gather raises the first exception of a unit to the awaiting coroutine.
StageRaised(r, s) == \E u \in Units(s) : status[r][<<s, u>>] = "err"

\* The units of stage s, as created by that stage's method.
Created(st, s) == [t \in Tasks |-> IF t[1] = s THEN "pending" ELSE st[t]]

ExceptHandlerSwallow(flag) == flag

\* except Exception: log.exception(...); raise
ExceptHandler(flag) == TRUE

\* --------------------------------------------------------------------------
\* The event loop.  It runs one callback at a time: a plain function called
\* from a coroutine without to_thread keeps the loop until it has ended.

\* The calls of request r that are running on the event loop's own thread.
OnLoop(r) ==
    {t \in Tasks : /\ t[1] \in BlockingStages \ ThreadStages
                   /\ status[r][t] = "running"}

LoopBlocked == \E r \in Requests : OnLoop(r) # {}

\* --------------------------------------------------------------------------
\* Actions.

\* process_design hands the request to pipeline.process, which enters
\* _download_images: both download coroutines are handed to gather.
Accept(r) ==
    /\ ~LoopBlocked
    /\ pc[r] = "idle"
    /\ pc' = [pc EXCEPT ![r] = "download"]
    /\ status' = [status EXCEPT ![r] = Created(status[r], "download")]
    /\ UNCHANGED <<responded, raised, isnet_lock, realesrgan_lock>>

\* The event loop runs a download or extraction coroutine for the first time.
StartCoroutine(r, t) ==
    /\ ~LoopBlocked
    /\ t[1] \notin ThreadStages
    /\ status[r][t] = "pending"
    /\ status' = [status EXCEPT ![r][t] = "running"]
    /\ UNCHANGED <<pc, responded, raised, isnet_lock, realesrgan_lock>>

\* A worker thread of the default executor begins the call handed to
\* asyncio.to_thread.
StartThread(r, t) ==
    /\ t[1] \in ThreadStages
    /\ status[r][t] = "pending"
    /\ status' = [status EXCEPT ![r][t] = "running"]
    /\ isnet_lock' = IF t[1] = "remove"
                        THEN LockOnCall(isnet_lock, <<r, t>>) ELSE isnet_lock
    /\ realesrgan_lock' = IF t[1] = "upscale"
                             THEN LockOnCall(realesrgan_lock, <<r, t>>)
                             ELSE realesrgan_lock
    /\ UNCHANGED <<pc, responded, raised>>

\* A download ends only after it has awaited the network (and, to raise,
\* its backoff sleeps), and an extraction returns only after it has awaited
\* the API; an extraction can raise before its first await.
EndsAfterAwait(t, o) == t[1] = "download" \/ (t[1] = "extract" /\ o = "ok")

\* gather schedules its coroutines together: the event loop runs the first
\* step of each of them before it resumes one that has awaited.
SiblingsBegun(r, t) ==
    \A u \in Units(t[1]) : status[r][<<t[1], u>>] # "pending"

FinishRetry(r, t, o) ==
    /\ status[r][t] = "running"
    /\ status' = [status EXCEPT ![r][t] = IF o = "err" THEN "pending" ELSE o]
    /\ UNCHANGED <<pc, responded, raised, isnet_lock, realesrgan_lock>>

\* A unit of work ends: its call returns (o = "ok") or raises (o = "err").
Finish(r, t, o) ==
    /\ t[1] \in ThreadStages \/ t \in OnLoop(r) \/ ~LoopBlocked
    /\ EndsAfterAwait(t, o) => SiblingsBegun(r, t)
    /\ status[r][t] = "running"
    /\ status' = [status EXCEPT ![r][t] = o]
    /\ isnet_lock' = IF t[1] = "remove"
                        THEN LockOnExit(isnet_lock, <<r, t>>) ELSE isnet_lock
    /\ realesrgan_lock' = IF t[1] = "upscale"
                             THEN LockOnExit(realesrgan_lock, <<r, t>>)
                             ELSE realesrgan_lock
    /\ UNCHANGED <<pc, responded, raised>>

Return(r, t) == Finish(r, t, "ok")

Raise(r, t) == Finish(r, t, "err")

\* process resumes from the gather of stage pc[r] with all results and enters
\* the next stage method, which creates that stage's units.
Advance(r) ==
    /\ ~LoopBlocked
    /\ pc[r] \in Stages \ {"save"}
    /\ StageJoined(r, pc[r])
    /\ LET next == StageSeq[StageIndex(pc[r]) + 1] IN
         /\ pc' = [pc EXCEPT ![r] = next]
         /\ status' = [status EXCEPT ![r] = Created(status[r], next)]
    /\ UNCHANGED <<responded, raised, isnet_lock, realesrgan_lock>>

\* _save_images resumes from its gather, builds the URLs, and process returns
\* the ProcessResponse.
Respond(r) ==
    /\ ~LoopBlocked
    /\ pc[r] = "save"
    /\ StageJoined(r, "save")
    /\ pc' = [pc EXCEPT ![r] = "done"]
    /\ responded' = [responded EXCEPT ![r] = TRUE]
    /\ UNCHANGED <<status, raised, isnet_lock, realesrgan_lock>>

\* The gather of stage pc[r] raises; process logs and re-raises.
Fail(r) ==
    /\ ~LoopBlocked
    /\ pc[r] \in Stages
    /\ StageRaised(r, pc[r])
    /\ pc' = [pc EXCEPT ![r] = "failed"]
    /\ raised' = [raised EXCEPT ![r] = ExceptHandler(raised[r])]
    /\ UNCHANGED <<status, responded, isnet_lock, realesrgan_lock>>

\* One step of request r with any outcome of the calls it makes.
RequestStep(r) ==
    \/ Accept(r)
    \/ \E t \in Tasks : StartCoroutine(r, t)
    \/ \E t \in Tasks : StartThread(r, t)
    \/ \E t \in Tasks : Return(r, t)
    \/ \E t \in Tasks : Raise(r, t)
    \/ Advance(r)
    \/ Respond(r)
    \/ Fail(r)

\* One request, every call of which may return or raise.
Solo == {1}

Next == (\E r \in Solo : RequestStep(r)) /\ UNCHANGED calls

Spec == Init /\ [][Next]_vars

\* Several requests in flight on the same event loop and executor, in the
\* runs where every call returns.
NextConcurrent ==
    /\ \E r \in Requests :
        \/ Accept(r)
        \/ \E t \in Tasks : StartCoroutine(r, t)
        \/ \E t \in Tasks : StartThread(r, t)
        \/ \E t \in Tasks : Return(r, t)
        \/ Advance(r)
        \/ Respond(r)
    /\ UNCHANGED calls

SpecConcurrent == Init /\ [][NextConcurrent]_vars

\* --------------------------------------------------------------------------
\* Vocabulary of the properties.

\* The units of stage s of request r whose call is in progress.
Running(r, s) == {u \in Units(s) : status[r][<<s, u>>] = "running"}

\* All calls of stage s in progress, over all requests.
InStage(s) == {<<r, u>> \in Requests \X Units(s) : u \in Running(r, s)}

\* Lane `lane` of request r has entered stage s / has completed it.
LaneStarted(r, s, lane) ==
    \E u \in Units(s) : LaneOf(u) = lane /\ status[r][<<s, u>>] # "none"

LaneDone(r, s, lane) ==
    \A u \in Units(s) : LaneOf(u) = lane => status[r][<<s, u>>] = "ok"

\* The output files of request r that Image.save has written.
OutputFiles(r) == {k \in Keys : status[r][<<"save", k>>] = "ok"}

Persisted(r) == responded[r]

Failed(r) == raised[r]

\* --------------------------------------------------------------------------
\* C1 - Segmentation mutual exclusion: at any time at most one execution
\* unit, over all lanes and requests, is inside a background-removal call.
C1_SegmentationExclusive == Cardinality(InStage("remove")) <= 1

\* C2 - Upscaling under the lock: every upscaler call in progress is the
\* holder of the upscale lock.
C2_UpscaleHoldsLock ==
    \A r \in Requests : \A u \in Running(r, "upscale") :
        realesrgan_lock = <<r, <<"upscale", u>>>>

\* C3 - Upscale permit bound: the number of upscale calls that have started
\* and not finished never exceeds UPSCALER_CONCURRENCY_LIMIT.
C3_UpscalePermitBound ==
    Cardinality(InStage("upscale")) <= UPSCALER_CONCURRENCY_LIMIT

\* C4 - Bounded lock wait: of two requests that both need the segmentation
\* lock, the second is not inside the protected call while the first is.
C4_SecondRequestWaits ==
    \A r1 \in Requests : \A r2 \in Requests \ {r1} :
        ~(Running(r1, "remove") # {} /\ Running(r2, "remove") # {})

C6_LaneOrdered ==
    \A r \in Requests : \A lane \in Lanes : \A i \in 2..Len(StageSeq) :
        LaneStarted(r, StageSeq[i], lane) => LaneDone(r, StageSeq[i - 1], lane)

C6_UnitStep ==
    \A r \in Requests : \A t \in Tasks :
        status'[r][t] # status[r][t] =>
            <<status[r][t], status'[r][t]>> \in
                {<<"none", "pending">>, <<"pending", "running">>,
                 <<"running", "ok">>, <<"running", "err">>}

C6_StageOrder == []C6_LaneOrdered /\ [][C6_UnitStep]_vars

\* The front lane is being saved.
C6_Witness ==
    \E r \in Requests : status[r][<<"save", "front_rmbg">>] = "running"

\* C7 - Lane independence, as claimed: a lane that has completed its stage
\* (download, extraction or matting) while the request is in that stage can
\* enter its next stage.
C7_LaneIndependent ==
    \A r \in Solo : \A lane \in Lanes : \A i \in 1..3 :
        (pc[r] = StageSeq[i] /\ LaneDone(r, StageSeq[i], lane)
            /\ ~StageRaised(r, StageSeq[i])) =>
            ENABLED (Next /\ LaneStarted(r, StageSeq[i + 1], lane)')

\* C7, amended - the lanes run in parallel within a stage, and every stage
\* boundary is a join of both lanes: a unit of a stage exists only when every
\* unit of the previous stage, of either lane, has returned.
C7_StageBarrier ==
    \A r \in Requests : \A i \in 2..Len(StageSeq) :
        (\E u \in Units(StageSeq[i]) : status[r][<<StageSeq[i], u>>] # "none") =>
            \A u \in Units(StageSeq[i - 1]) :
                status[r][<<StageSeq[i - 1], u>>] = "ok"

\* The front lane has completed its extraction while the back lane is still
\* extracting; the front lane has not entered matting.
C7_Witness ==
    \E r \in Requests :
        /\ status[r][<<"extract", "front">>] = "ok"
        /\ status[r][<<"extract", "back">>] = "running"
        /\ ~LaneStarted(r, "remove", "front")

\* C8 - All-or-nothing result: a request that has failed has no output file
\* persisted, and a response is returned only with all outputs written.
C8_AllOrNothing ==
    \A r \in Requests :
        /\ Failed(r) => OutputFiles(r) = {}
        /\ Persisted(r) => OutputFiles(r) = Keys

\* C9 - Terminal states: a request that has ended is Persisted or Failed and
\* not both, and once it is Failed it stays Failed and never becomes
\* Persisted.
C9_ExactlyOne ==
    \A r \in Requests :
        /\ ~(Persisted(r) /\ Failed(r))
        /\ pc[r] = "done" <=> Persisted(r)
        /\ pc[r] = "failed" <=> Failed(r)

C9_Absorbing ==
    \A r \in Requests :
        Failed(r) => Failed(r)' /\ ~Persisted(r)' /\ pc'[r] = "failed"

C9_Terminal == []C9_ExactlyOne /\ [][C9_Absorbing]_vars

\* A request has failed out of the upscaling stage.
C9_Witness ==
    \E r \in Requests :
        /\ Failed(r)
        /\ StageRaised(r, "upscale")
        /\ StageJoined(r, "remove")

\* C10 - Join before persistence: a save exists only when the upscaling of
\* every output of both lanes has returned, and the response is returned only
\* when every save has returned.
C10_JoinBeforePersist ==
    \A r \in Requests :
        /\ (\E k \in Keys : status[r][<<"save", k>>] # "none") =>
              \A k \in Keys : status[r][<<"upscale", k>>] = "ok"
        /\ Persisted(r) => \A k \in Keys : status[r][<<"save", k>>] = "ok"

\* A response has been returned.
C10_Witness == \E r \in Requests : Persisted(r)

\* --------------------------------------------------------------------------
\* ImageDownloader.download (app/services/downloader.py), one call.

\* The state of the orchestrator, which the single-call specifications leave
\* alone.
pipe == <<pc, status, responded, raised, isnet_lock, realesrgan_lock>>

\* Largest max_retries the downloader is constructed with.
MaxRetriesBound == 3

\* downloader.py:31
INITIAL_BACKOFF == 1

\* What one pass through the try block comes to: the image is returned, or
\* httpx.RequestError, httpx.HTTPStatusError or any other Exception (such as
\* Image.open failing on the body) is caught.
FetchOutcomes == {"ok", "request_error", "http_error", "decode_error"}

InRangeInclusive(i, m) == i <= m

\* for attempt in range(self.max_retries): index i is one of the loop's.
InRange(i, m) == i < m

AfterFetchNoReturn(o, attempt, m) ==
    IF attempt < m - 1 THEN "sleep" ELSE "next"

\* Where download stands after the try block of index `attempt`: the return
\* at line 65, the sleep at line 89, or the end of the loop body.
AfterFetch(o, attempt, m) ==
    IF o = "ok" THEN "returned"
    ELSE IF attempt < m - 1 THEN "sleep" ELSE "next"

BackoffConstant(attempt) == INITIAL_BACKOFF

\* backoff_time = self.initial_backoff * (2 ** attempt)
BackoffTime(attempt) == INITIAL_BACKOFF * (2 ^ attempt)

\* Draws of random.uniform(0.1, 0.5), in tenths: both ends and the middle.
Jitters == {1, 3, 5}

\* wait_time = backoff_time + backoff_time * uniform, in tenths of a second.
WaitTime(attempt, j) == BackoffTime(attempt) * 10 + BackoffTime(attempt) * j

InitDownload ==
    /\ InitPipeline
    /\ dl \in {[at |-> "call", max_retries |-> m, attempt |-> 0, attempts |-> 0,
                 waits |-> <<>>, history |-> <<>>, result |-> 0] :
                    m \in 0..MaxRetriesBound}
    /\ ex = Idle
    /\ gf = Idle
    /\ up = Idle
    /\ hd = Idle
    /\ mt = Idle
    /\ mm = Idle /\ fl = Idle /\ sv = Idle

\* download is called: the for loop takes its first index, or has none.
DlEnter ==
    /\ dl.at = "call"
    /\ dl' = [dl EXCEPT !.at = IF InRange(0, dl.max_retries)
                                  THEN "fetch" ELSE "raised"]
    /\ UNCHANGED <<pipe, ex, gf, up, hd, mt, mm, fl, sv>>

\* One pass through the try block: _client.get, raise_for_status, Image.open,
\* load.  A returned image is numbered by the attempt that fetched it.
DlFetch(o) ==
    /\ dl.at = "fetch"
    /\ dl' = [dl EXCEPT !.attempts = @ + 1,
                        !.history = Append(@, o),
                        !.result = IF o = "ok" THEN dl.attempt + 1 ELSE @,
                        !.at = AfterFetch(o, dl.attempt, dl.max_retries)]
    /\ UNCHANGED <<pipe, ex, gf, up, hd, mt, mm, fl, sv>>

\* The jitter is drawn and await asyncio.sleep(wait_time) is over.
DlWake(j) ==
    /\ dl.at = "sleep"
    /\ dl' = [dl EXCEPT !.waits = Append(@, WaitTime(dl.attempt, j)),
                        !.at = "next"]
    /\ UNCHANGED <<pipe, ex, gf, up, hd, mt, mm, fl, sv>>

\* The for loop takes its next index, or ends and download raises ValueError.
DlLoop ==
    /\ dl.at = "next"
    /\ dl' = IF InRange(dl.attempt + 1, dl.max_retries)
               THEN [dl EXCEPT !.attempt = @ + 1, !.at = "fetch"]
               ELSE [dl EXCEPT !.at = "raised"]
    /\ UNCHANGED <<pipe, ex, gf, up, hd, mt, mm, fl, sv>>

NextDownload ==
    \/ DlEnter
    \/ \E o \in FetchOutcomes : DlFetch(o)
    \/ \E j \in Jitters : DlWake(j)
    \/ DlLoop

SpecDownload == InitDownload /\ [][NextDownload]_vars

\* The attempts of the call that failed.
DlFailures == {i \in 1..Len(dl.history) : dl.history[i] # "ok"}

\* C11 - Bounded download retry: download makes at most max_retries fetch
\* attempts; it raises only when max_retries attempts have all failed, does
\* not wait after the last of them, and makes no step after it has ended.
C11_AttemptsBounded ==
    dl.at # "idle" =>
        /\ dl.attempts <= dl.max_retries
        /\ dl.attempts = Len(dl.history)
        /\ dl.at = "raised" =>
              dl.attempts = dl.max_retries /\ DlFailures = 1..dl.max_retries
        /\ dl.at = "sleep" => dl.attempts < dl.max_retries

C11_Ended == dl.at \in {"raised", "returned"} => dl' = dl

C11_BoundedRetry == []C11_AttemptsBounded /\ [][C11_Ended]_vars

\* download has raised after max_retries = 3 failed attempts.
C11_Witness ==
    dl.at = "raised" /\ dl.max_retries = 3 /\ dl.attempts = 3

\* C12 - Retry then success: a success is the last attempt of the call; when
\* attempt k+1 succeeds after k failures, download returns the image of
\* attempt k+1 and has made exactly k+1 attempts, k+1 <= max_retries.
C12_RetryThenSuccess ==
    dl.at # "idle" =>
        /\ \A i \in 1..Len(dl.history) :
              dl.history[i] = "ok" => i = Len(dl.history) /\ dl.at = "returned"
        /\ dl.at = "returned" =>
              /\ dl.history[Len(dl.history)] = "ok"
              /\ dl.result = Len(dl.history)
              /\ dl.attempts = Len(dl.history)
              /\ Len(dl.history) <= dl.max_retries

\* Two transient failures, then success on the third attempt, max_retries = 3.
C12_Witness ==
    /\ dl.at = "returned"
    /\ dl.max_retries = 3
    /\ dl.history = <<"request_error", "http_error", "ok">>
    /\ dl.result = 3

\* C14 - Transient versus permanent download errors: a body that cannot be
\* decoded as an image ends the call; it is followed by no wait and no
\* further attempt.
C14_PermanentNotRetried ==
    dl.at # "idle" =>
        \A i \in 1..Len(dl.history) :
            dl.history[i] = "decode_error" =>
                /\ i = Len(dl.history)
                /\ dl.at # "sleep"
                /\ dl.at = "next" => ~InRange(dl.attempt + 1, dl.max_retries)

\* --------------------------------------------------------------------------
\* C13 - Only downloads are retried: a call of the extraction, background
\* removal or upscaling stage that has begun is never created or begun again,
\* an ended one keeps its outcome, and once one of them has raised the request
\* is never Persisted: it is Failed, or the gather that raises is the one
\* process is awaiting.
C13_NoSecondCall ==
    \A r \in Requests : \A t \in Tasks :
        t[1] \in {"extract", "remove", "upscale"} =>
            /\ status[r][t] \in {"running", "ok", "err"} =>
                  status'[r][t] # "pending"
            /\ status[r][t] \in {"ok", "err"} => status'[r][t] = status[r][t]

C13_FirstFailureFatal ==
    \A r \in Requests : \A t \in Tasks :
        t[1] \in {"extract", "remove", "upscale"} /\ status[r][t] = "err" =>
            /\ ~Persisted(r)
            /\ \/ pc[r] = "failed" /\ Failed(r)
               \/ pc[r] = t[1] /\ StageRaised(r, pc[r])

C13_OnlyDownloadRetried ==
    []C13_FirstFailureFatal /\ [][C13_NoSecondCall]_vars

\* A request has Failed on an extraction that raised, while the other lane's
\* extraction had returned and no background removal was ever created.
C13_Witness ==
    \E r \in Requests :
        /\ Failed(r)
        /\ status[r][<<"extract", "front">>] = "err"
        /\ status[r][<<"extract", "back">>] = "ok"
        /\ \A k \in Keys : status[r][<<"remove", k>>] = "none"

\* --------------------------------------------------------------------------
\* One call of the request handler process_design (main.py), followed from
\* its entry to the response or the HTTPException it ends with.

\* How many units of one stage raise during the call.
MaxRaised == 2

\* raise ValueError(f"Failed to download image after {n} attempts")
DownloadTexts == {"Failed to download image after attempts"}

\* The two RuntimeErrors the extractor's run can leave with.
ExtractTexts == {"Gemini client is not initialized in ModelManager.",
                 "Gemini API call failed: "}

\* The ValueError and the RuntimeError the upscaler's run raises itself.
UpscaleTexts == {"Expected RGBA image, got ",
                 "Real-ESRGAN model not initialized in ModelManager."}

\* The messages the code itself gives to the exceptions it raises in stage s.
OwnTexts(s) ==
    CASE s = "download" -> DownloadTexts
      [] s = "extract" -> ExtractTexts
      [] s = "upscale" -> UpscaleTexts
      [] OTHER -> {}

\* Messages of exceptions raised inside the library calls of a stage (model
\* inference, Image.merge, Image.save), which no except clause rewrites: a
\* MemoryError has the empty message.
LibraryTexts == {"", "CUDA out of memory"}

\* download and the extractor's run wrap every Exception in their own;
\* the removers, the upscaler and the save let library exceptions through.
ExceptionTexts(s) ==
    IF s \in {"download", "extract"} THEN OwnTexts(s)
    ELSE OwnTexts(s) \cup LibraryTexts

Exceptions(s) == [stage : {s}, text : ExceptionTexts(s)]

\* The exceptions of the units of one stage, in the order they are raised.
RaisedBy(s) == UNION {[1..n -> Exceptions(s)] : n \in 1..MaxRaised}

ProcessOutcomes ==
    {[kind |-> "response", excs |-> <<>>]} \cup
    {[kind |-> "raise", excs |-> q] : q \in UNION {RaisedBy(s) : s \in Stages}}

\* gather hands the first exception raised to the awaiting coroutine; the
\* later ones are marked retrieved and dropped.
GatherRaises(excs) == excs[1]

NoException == [stage |-> "none", text |-> ""]

\* str(e) of HTTPException(status_code=503, detail="Service not initialized").
NotInitialized == [stage |-> "handler", text |-> "503: Service not initialized"]

\* HTTPException(status_code=500, detail=f"Processing failed: {str(e)}")
HTTPException500(e) ==
    [status_code |-> 500, detail |-> <<"Processing failed: ", e.text>>]

InitHandler ==
    /\ InitPipeline
    /\ hd \in {[at |-> "call", pipeline |-> p, outcome |-> o,
                exc |-> NoException, signals |-> <<>>, returned |-> FALSE] :
                   p \in BOOLEAN, o \in ProcessOutcomes}
    /\ dl = Idle /\ ex = Idle /\ gf = Idle /\ up = Idle /\ mt = Idle
    /\ mm = Idle /\ fl = Idle /\ sv = Idle

\* try: if not pipeline: raise HTTPException(503) - inside the try block.
HdEnter ==
    /\ hd.at = "call"
    /\ hd' = IF hd.pipeline
                THEN [hd EXCEPT !.at = "await"]
                ELSE [hd EXCEPT !.at = "except", !.exc = NotInitialized]
    /\ UNCHANGED <<pipe, dl, ex, gf, up, mt, mm, fl, sv>>

\* result = await pipeline.process(request); return result
HdAwait ==
    /\ hd.at = "await"
    /\ hd' = IF hd.outcome.kind = "response"
                THEN [hd EXCEPT !.at = "returned", !.returned = TRUE]
                ELSE [hd EXCEPT !.at = "except",
                                !.exc = GatherRaises(hd.outcome.excs)]
    /\ UNCHANGED <<pipe, dl, ex, gf, up, mt, mm, fl, sv>>

\* except Exception as e: log.exception(...); raise HTTPException(500, ...)
HdExcept ==
    /\ hd.at = "except"
    /\ hd' = [hd EXCEPT !.at = "raised",
                        !.signals = Append(@, HTTPException500(hd.exc))]
    /\ UNCHANGED <<pipe, dl, ex, gf, up, mt, mm, fl, sv>>

NextHandler == HdEnter \/ HdAwait \/ HdExcept

SpecHandler == InitHandler /\ [][NextHandler]_vars

\* The stages whose own messages include the text the signal carries.
StagesNamed(signal) == {s \in Stages : signal.detail[2] \in OwnTexts(s)}

\* C15 - Single failure signal: a request that failed in a stage has sent the
\* caller exactly one failure signal, and what the signal carries identifies
\* the stage (and with it the error kind) in which the failure originated.
C15_SignalNamesStage ==
    hd.at = "raised" /\ hd.exc.stage \in Stages =>
        /\ Len(hd.signals) = 1
        /\ ~hd.returned
        /\ StagesNamed(hd.signals[1]) = {hd.exc.stage}

\* --------------------------------------------------------------------------
\* Steps 4 and 5 of the RMBG remover's run with its call of
\* rmbg_utils.apply_guided_filter, followed from the matte that step 3 hands
\* over to the image that run returns.

\* The longest matte, in pixels, and the alpha levels of a pixel (as uint8).
MaxMatte == 2

AlphaLevels == {0, 128, 255}

Mattes == UNION {[1..n -> AlphaLevels] : n \in 1..MaxMatte}

\* What cv2.ximgproc.guidedFilter does when called: it returns the filtered
\* matte, or the attribute is missing (no opencv-contrib), or OpenCV raises
\* cv2.error, or something else is raised.
FilterOutcomes == {"filtered", "AttributeError", "cv2.error", "other"}

\* except (AttributeError, cv2.error)
Caught == {"AttributeError", "cv2.error"}

InitGuided ==
    /\ InitPipeline
    /\ gf \in {[at |-> "step4", USE_GUIDED_FILTER |-> u, outcome |-> o,
                processed_alpha |-> a, alpha_final |-> <<>>,
                filtered |-> FALSE, warned |-> FALSE] :
                   u \in BOOLEAN, o \in FilterOutcomes, a \in Mattes}
    /\ dl = Idle /\ ex = Idle /\ up = Idle /\ hd = Idle /\ mt = Idle
    /\ mm = Idle /\ fl = Idle /\ sv = Idle

\* alpha_final = processed_alpha; if settings.USE_GUIDED_FILTER: call.
GfStep4 ==
    /\ gf.at = "step4"
    /\ gf' = IF gf.USE_GUIDED_FILTER
                THEN [gf EXCEPT !.at = "filter"]
                ELSE [gf EXCEPT !.at = "step5",
                                !.alpha_final = gf.processed_alpha]
    /\ UNCHANGED <<pipe, dl, ex, up, hd, mt, mm, fl, sv>>

\* apply_guided_filter: the try block and its except clause.
GfFilter ==
    /\ gf.at = "filter"
    /\ gf' = CASE gf.outcome = "filtered" ->
                    [gf EXCEPT !.at = "step5", !.filtered = TRUE,
                               !.alpha_final =
                                   <<"guidedFilter", gf.processed_alpha>>]
               [] gf.outcome \in Caught ->
                    [gf EXCEPT !.at = "step5", !.warned = TRUE,
                               !.alpha_final = gf.processed_alpha]
               [] OTHER -> [gf EXCEPT !.at = "raised"]
    /\ UNCHANGED <<pipe, dl, ex, up, hd, mt, mm, fl, sv>>

\* Step 5: the RGBA image is built from alpha_final and returned.
GfStep5 ==
    /\ gf.at = "step5"
    /\ gf' = [gf EXCEPT !.at = "returned"]
    /\ UNCHANGED <<pipe, dl, ex, up, hd, mt, mm, fl, sv>>

NextGuided == GfStep4 \/ GfFilter \/ GfStep5

SpecGuided == InitGuided /\ [][NextGuided]_vars

MaxParts == 2

Levels == {0, 128, 255}

Colours == {<<0, 0, 0>>, <<255, 0, 0>>, <<10, 128, 250>>}

\* A decoded image of one pixel: its mode and the bands of the pixel.
Images ==
    {[mode |-> "RGBA", bands |-> c \o <<a>>] : c \in Colours, a \in Levels}
    \cup {[mode |-> "RGB", bands |-> c] : c \in Colours}
    \cup {[mode |-> "L", bands |-> <<l>>] : l \in Levels}
    \cup {[mode |-> "LA", bands |-> <<l, a>>] : l \in Levels, a \in {0, 255}}

\* A part of the response content: text only (inline_data is None), inline
\* data that decodes to an image, or inline data Image.open cannot decode.
Text == [kind |-> "text"]

Undecodable == [kind |-> "undecodable"]

Parts == {Text, Undecodable} \cup {[kind |-> "image", image |-> i] : i \in Images}

\* What generate_content does: it raises, or it returns a response without
\* candidates, with an empty candidate list, with a first candidate without
\* content, with content whose parts are None, or with a list of parts.
Responses ==
    {[kind |-> k, parts |-> <<>>] :
        k \in {"api_error", "no_candidates", "empty_candidates",
               "no_content", "no_parts"}}
    \cup {[kind |-> "parts", parts |-> q] :
             q \in UNION {[1..n -> Parts] : n \in 0..MaxParts}}

\* ((a * b + 128) >> 8 + (a * b + 128)) >> 8, Pillow's division by 255.
MULDIV255(a, b) == LET tmp == a * b + 128 IN ((tmp \div 256) + tmp) \div 256

\* Pillow's paste of one band value through a mask value.
Blend(mask, dst, src) == MULDIV255(dst, 255 - mask) + MULDIV255(src, mask)

BackgroundBlack == <<0, 0, 0>>

\* Image.new('RGB', size, (255, 255, 255))
Background == <<255, 255, 255>>

\* background.paste(extracted_image, mask=extracted_image.split()[3])
Paste(img) ==
    [mode |-> "RGB",
     bands |-> [ch \in 1..3 |-> Blend(img.bands[4], Background[ch], img.bands[ch])]]

\* extracted_image.convert('RGB') of a greyscale image, with or without alpha.
ConvertRGB(img) ==
    [mode |-> "RGB", bands |-> <<img.bands[1], img.bands[1], img.bands[1]>>]

\* "Ensure RGB mode for consistency"
EnsureRGB(img) ==
    IF img.mode = "RGBA" THEN Paste(img)
    ELSE IF img.mode # "RGB" THEN ConvertRGB(img)
    ELSE img

NoImagePartNone == [kind |-> "return", image |-> <<>>, text |-> ""]

\* The loop over the parts has ended, or was never entered: raise
\* RuntimeError("Failed to extract design: ...").
NoImagePart ==
    [kind |-> "raise", image |-> <<>>,
     text |-> "Failed to extract design: Gemini API did not return an image."]

\* The parts that carry inline data.
InlineParts(parts) == {i \in 1..Len(parts) : parts[i].kind # "text"}

\* The body of the try block, from the response to a return or a raise.
TryBlock(response) ==
    CASE response.kind = "api_error" ->
            [kind |-> "raise", image |-> <<>>, text |-> "api error"]
      [] response.kind \in {"no_candidates", "empty_candidates", "no_content"} ->
            NoImagePart
      [] response.kind = "no_parts" ->
            [kind |-> "raise", image |-> <<>>,
             text |-> "'NoneType' object is not iterable"]
      [] OTHER ->
            IF InlineParts(response.parts) = {} THEN NoImagePart
            ELSE LET i == CHOOSE j \in InlineParts(response.parts) :
                              \A k \in InlineParts(response.parts) : j <= k
                     part == response.parts[i]
                 IN IF part.kind = "undecodable"
                       THEN [kind |-> "raise", image |-> <<>>,
                             text |-> "cannot identify image file"]
                       ELSE [kind |-> "return", image |-> EnsureRGB(part.image),
                             text |-> ""]

InitExtract ==
    /\ InitPipeline
    /\ ex \in {[at |-> "call", client |-> c, response |-> rsp, api_calls |-> 0,
                inner |-> "", error |-> <<>>, result |-> <<>>] :
                   c \in BOOLEAN, rsp \in Responses}
    /\ dl = Idle /\ gf = Idle /\ up = Idle /\ hd = Idle /\ mt = Idle
    /\ mm = Idle /\ fl = Idle /\ sv = Idle

\* if not client: raise RuntimeError(...); else the request is sent.
ExEnter ==
    /\ ex.at = "call"
    /\ ex' = IF ex.client
                THEN [ex EXCEPT !.at = "await", !.api_calls = @ + 1]
                ELSE [ex EXCEPT !.at = "raised",
                        !.error = <<"Gemini client is not initialized in ModelManager.">>]
    /\ UNCHANGED <<pipe, dl, gf, up, hd, mt, mm, fl, sv>>

\* generate_content ends and the try block runs to its return or raise.
ExResponse ==
    /\ ex.at = "await"
    /\ LET out == TryBlock(ex.response) IN
         ex' = IF out.kind = "return"
                  THEN [ex EXCEPT !.at = "returned", !.result = out.image]
                  ELSE [ex EXCEPT !.at = "except", !.inner = out.text]
    /\ UNCHANGED <<pipe, dl, gf, up, hd, mt, mm, fl, sv>>

\* except Exception as e: raise RuntimeError(f"Gemini API call failed: {e}")
ExExcept ==
    /\ ex.at = "except"
    /\ ex' = [ex EXCEPT !.at = "raised",
                        !.error = <<"Gemini API call failed: ", ex.inner>>]
    /\ UNCHANGED <<pipe, dl, gf, up, hd, mt, mm, fl, sv>>

NextExtract == ExEnter \/ ExResponse \/ ExExcept

SpecExtract == InitExtract /\ [][NextExtract]_vars

\* The response carries an image payload: a candidate with content and a
\* part with inline data.
HasPayload(response) ==
    response.kind = "parts" /\ InlineParts(response.parts) # {}

\* The image the extraction capability returned, when it returned one.
Extracted(response) ==
    response.parts[CHOOSE j \in InlineParts(response.parts) :
                      \A k \in InlineParts(response.parts) : j <= k].image

\* C17 - Extraction without an image payload: a call whose response carries
\* no image payload never returns; once it has left the try block it ends by
\* raising an error with a message, and the request is sent at most once.
C17_NoPayloadRaises ==
    /\ ex.at # "idle" => ex.api_calls <= 1
    /\ ex.at # "idle" /\ ~HasPayload(ex.response) =>
          /\ ex.at # "returned"
          /\ ex.result = <<>>
          /\ ex.at = "raised" => ex.error # <<>> /\ ex.error[1] # ""

C17_Ended ==
    ex.at \in {"raised", "returned"} => ex' = ex

C17_NoPayloadIsError == []C17_NoPayloadRaises /\ [][C17_Ended]_vars

\* The call has raised on a response whose only part is text.
C17_Witness ==
    /\ ex.at = "raised"
    /\ ex.response.kind = "parts"
    /\ ex.response.parts = <<Text>>
    /\ ex.api_calls = 1
    /\ ex.error = <<"Gemini API call failed: ", NoImagePart.text>>

\* C18 - Extraction output mode: the image run returns is in RGB mode with
\* three bands; from an RGBA result every band is the band blended onto
\* white: white where alpha is 0, the colour where alpha is 255, and within
\* one level of (c * a + 255 * (255 - a)) / 255 otherwise.
C18_OutputRGB ==
    ex.at = "returned" =>
        /\ ex.result.mode = "RGB"
        /\ Len(ex.result.bands) = 3
        /\ LET src == Extracted(ex.response) IN
             src.mode = "RGBA" =>
                 \A ch \in 1..3 :
                     LET c == src.bands[ch]
                         a == src.bands[4]
                         out == ex.result.bands[ch]
                         exact == c * a + 255 * (255 - a)
                     IN /\ a = 0 => out = 255
                        /\ a = 255 => out = c
                        /\ 255 * out - exact <= 255
                        /\ exact - 255 * out <= 255

\* run has returned the flattening of a half-transparent RGBA image.
C18_Witness ==
    /\ ex.at = "returned"
    /\ Extracted(ex.response) = [mode |-> "RGBA", bands |-> <<10, 128, 250, 128>>]
    /\ ex.result = [mode |-> "RGB", bands |-> <<132, 191, 252>>]

\* --------------------------------------------------------------------------
\* The worker calls in progress, over all requests.
WorkerCalls ==
    {<<r, t>> \in Requests \X Tasks :
        t[1] \in BlockingStages /\ status[r][t] = "running"}

\* C19 - Event loop never blocked: no background removal, upscaling or save
\* ever runs on the event loop, and while one of them is in progress the loop
\* can still accept another request, start every created download or
\* extraction coroutine and resume every running one (once the coroutines
\* gathered with it have had their first step).
C19_LoopNeverBlocked ==
    /\ ~LoopBlocked
    /\ \A w \in WorkerCalls : w[2][1] \in ThreadStages
    /\ WorkerCalls # {} =>
          \A r \in Requests :
              /\ pc[r] = "idle" => ENABLED Accept(r)
              /\ \A t \in Tasks :
                    t[1] \in {"download", "extract"} =>
                        /\ status[r][t] = "pending" => ENABLED StartCoroutine(r, t)
                        /\ (status[r][t] = "running" /\ SiblingsBegun(r, t))
                              => ENABLED Return(r, t)

\* A background removal of request 1 is in progress on a worker while one
\* download coroutine of request 2 is running and the other can be started.
C19_Witness ==
    /\ status[1][<<"remove", "front_rmbg">>] = "running"
    /\ status[2][<<"download", "front">>] = "running"
    /\ status[2][<<"download", "back">>] = "pending"
    /\ ENABLED StartCoroutine(2, <<"download", "back">>)

\* --------------------------------------------------------------------------
\* One call of the upscaler's run (upscaler/process.py), followed from its
\* entry to the RGBA image it returns or the error it raises.

\* upsampler.enhance(..., outscale=4)
OUTSCALE == 4

Widths == {1, 2, 400}

Heights == {1, 3, 300}

\* What one call of RealESRGANer.enhance does: it raises, or it returns a
\* raster.  The raster of a call that honours outscale is off by 0 columns;
\* a raster of any other size stands for a call that does not.
EnhanceOutcomes ==
    {[kind |-> "raise", off |-> 0]}
    \cup {[kind |-> "return", off |-> d] : d \in {0, 1}}

\* run has returned no image (yet).
NoResult == [mode |-> "none"]

\* The size (width, height) of the raster enhance returns.
EnhanceSize(size, outscale, off) ==
    <<size[1] * outscale + off, size[2] * outscale>>

MergeUnchecked(rgb_size, alpha_size) ==
    [kind |-> "return", size |-> rgb_size]

\* Image.merge("RGBA", bands): Pillow raises ValueError("size mismatch")
\* unless every band has the size of the first.
Merge(rgb_size, alpha_size) ==
    IF alpha_size # rgb_size
       THEN [kind |-> "raise", size |-> <<>>]
       ELSE [kind |-> "return", size |-> rgb_size]

HeadChecksNone(mode, upsampler) == "pass"

\* The two checks at the head of run: which of them raises, if any.
HeadChecks(mode, upsampler) ==
    IF mode # "RGBA" THEN "mode"
    ELSE IF ~upsampler THEN "model"
    ELSE "pass"

InitUpscale ==
    /\ InitPipeline
    /\ up \in {[at |-> "call", mode |-> m, upsampler |-> u, size |-> <<w, h>>,
                rgb_outcome |-> c, alpha_outcome |-> a,
                rgb_size |-> <<>>, alpha_size |-> <<>>, enhance_calls |-> 0,
                result |-> NoResult, error |-> ""] :
                   m \in {"RGBA", "RGB", "L"}, u \in BOOLEAN,
                   w \in Widths, h \in Heights,
                   c \in EnhanceOutcomes, a \in EnhanceOutcomes}
    /\ dl = Idle /\ ex = Idle /\ gf = Idle /\ hd = Idle /\ mt = Idle
    /\ mm = Idle /\ fl = Idle /\ sv = Idle

\* run is entered: ValueError, RuntimeError, or on to the first enhance.
UpEnter ==
    /\ up.at = "call"
    /\ up' = CASE HeadChecks(up.mode, up.upsampler) = "mode" ->
                    [up EXCEPT !.at = "raised",
                               !.error = "Expected RGBA image, got "]
               [] HeadChecks(up.mode, up.upsampler) = "model" ->
                    [up EXCEPT !.at = "raised",
                        !.error = "Real-ESRGAN model not initialized in ModelManager."]
               [] OTHER -> [up EXCEPT !.at = "rgb"]
    /\ UNCHANGED <<pipe, dl, ex, gf, hd, mt, mm, fl, sv>>

\* output_rgb_bgr, _ = upsampler.enhance(rgb_np_bgr, outscale=4)
UpEnhanceRGB ==
    /\ up.at = "rgb"
    /\ up' = IF up.rgb_outcome.kind = "raise"
                THEN [up EXCEPT !.at = "raised", !.error = "enhance",
                                !.enhance_calls = @ + 1]
                ELSE [up EXCEPT !.at = "alpha", !.enhance_calls = @ + 1,
                        !.rgb_size = EnhanceSize(up.size, OUTSCALE, up.rgb_outcome.off)]
    /\ UNCHANGED <<pipe, dl, ex, gf, hd, mt, mm, fl, sv>>

\* output_alpha_bgr, _ = upsampler.enhance(alpha_3_channel_np, outscale=4)
UpEnhanceAlpha ==
    /\ up.at = "alpha"
    /\ up' = IF up.alpha_outcome.kind = "raise"
                THEN [up EXCEPT !.at = "raised", !.error = "enhance",
                                !.enhance_calls = @ + 1]
                ELSE [up EXCEPT !.at = "merge", !.enhance_calls = @ + 1,
                        !.alpha_size = EnhanceSize(up.size, OUTSCALE, up.alpha_outcome.off)]
    /\ UNCHANGED <<pipe, dl, ex, gf, hd, mt, mm, fl, sv>>

\* Image.fromarray twice, Image.merge, return upscaled_rgba.
UpMerge ==
    /\ up.at = "merge"
    /\ LET m == Merge(up.rgb_size, up.alpha_size) IN
         up' = IF m.kind = "raise"
                  THEN [up EXCEPT !.at = "raised", !.error = "size mismatch"]
                  ELSE [up EXCEPT !.at = "returned",
                          !.result = [mode |-> "RGBA", rgb_size |-> up.rgb_size,
                                      alpha_size |-> up.alpha_size,
                                      size |-> m.size]]
    /\ UNCHANGED <<pipe, dl, ex, gf, hd, mt, mm, fl, sv>>

NextUpscale == UpEnter \/ UpEnhanceRGB \/ UpEnhanceAlpha \/ UpMerge

SpecUpscale == InitUpscale /\ [][NextUpscale]_vars

\* C20 - Upscale dimensions: an image run returns is RGBA, from an RGBA
\* input, with colour and alpha planes of one size, which is exactly 4W by 4H
\* whenever both enhance calls honoured outscale; and a call whose upscaled
\* colour and alpha rasters differ in size never returns: it ends raised.
C20_Dimensions ==
    /\ up.at = "returned" =>
          /\ up.mode = "RGBA" /\ up.result.mode = "RGBA"
          /\ up.result.rgb_size = up.result.size
          /\ up.result.alpha_size = up.result.size
          /\ up.rgb_outcome.off = 0 /\ up.alpha_outcome.off = 0 =>
                up.result.size = <<4 * up.size[1], 4 * up.size[2]>>
    /\ up.at # "idle" /\ up.rgb_size # <<>> /\ up.alpha_size # <<>>
           /\ up.rgb_size # up.alpha_size =>
          /\ up.at \in {"merge", "raised"}
          /\ up.result = NoResult
          /\ up.at = "raised" => up.error # ""

\* A 400x300 RGBA image has come back as 1600x1200.
C20_Witness ==
    /\ up.at = "returned"
    /\ up.size = <<400, 300>>
    /\ up.result.size = <<1600, 1200>>
    /\ up.result.alpha_size = <<1600, 1200>>

\* --------------------------------------------------------------------------
\* C28 - Backoff schedule: the wait after the failed attempt of index n, which
\* happens only for n < max_retries - 1, lasts initial_backoff * 2^n plus 10%
\* to 50% of that; an attempt of index n begins after exactly n waits, there
\* is no wait after the last attempt, and a download that has raised has
\* waited exactly max_retries - 1 times.
C28_BackoffSchedule ==
    dl.at # "idle" =>
        /\ \A i \in 1..Len(dl.waits) :
              /\ i - 1 < dl.max_retries - 1
              /\ dl.history[i] # "ok"
              /\ dl.waits[i] >= 11 * INITIAL_BACKOFF * (2 ^ (i - 1))
              /\ dl.waits[i] <= 15 * INITIAL_BACKOFF * (2 ^ (i - 1))
        /\ dl.at = "fetch" => Len(dl.waits) = dl.attempt
        /\ dl.at = "sleep" =>
              Len(dl.waits) = dl.attempt /\ dl.attempt < dl.max_retries - 1
        /\ dl.at = "raised" /\ dl.max_retries >= 1 =>
              Len(dl.waits) = dl.max_retries - 1

\* With max_retries = 3 the download has raised after waits of 1.1 s and 3 s.
C28_Witness ==
    /\ dl.at = "raised"
    /\ dl.max_retries = 3
    /\ dl.waits = <<11, 30>>

\* --------------------------------------------------------------------------
\* Scheduling.  The event loop runs every ready callback and the default
\* executor runs every call handed to it; each external call returns or
\* raises.  So a step of the request that can be taken is eventually taken.
SpecLive == Init /\ [][Next]_vars /\ WF_vars(Next)

\* C30 - Request termination: every accepted request eventually is Persisted
\* or Failed, whatever its calls return or raise; and a request is Failed
\* only when one of its calls has raised, so a request all of whose calls
\* return is eventually Persisted.
C30_Terminates ==
    /\ \A r \in Requests :
          (pc[r] # "idle") ~> (Persisted(r) \/ Failed(r))
    /\ [](\A r \in Requests :
             Failed(r) => \E t \in Tasks : status[r][t] = "err")

\* A request is Persisted with every one of its calls returned.
C30_Witness ==
    \E r \in Requests :
        /\ Persisted(r)
        /\ pc[r] = "done"
        /\ \A t \in Tasks : status[r][t] = "ok"

\* --------------------------------------------------------------------------
\* C27 - Upscaler input check: a call of run whose input is not RGBA, or
\* whose Real-ESRGAN model is not loaded, makes no enhance call: it raises
\* from the head of run with one of the two messages and returns no image.
C27_RaisesBeforeEnhance ==
    up.at # "idle" /\ (up.mode # "RGBA" \/ ~up.upsampler) =>
        /\ up.enhance_calls = 0
        /\ up.at \in {"call", "raised"}
        /\ up.result = NoResult
        /\ up.at = "raised" => up.error \in UpscaleTexts

\* run has raised on an RGB image with the model loaded, without a call of
\* enhance.
C27_Witness ==
    /\ up.at = "raised"
    /\ up.mode = "RGB"
    /\ up.upsampler
    /\ up.enhance_calls = 0
    /\ up.error = "Expected RGBA image, got "

\* --------------------------------------------------------------------------
\* C29 - Request before initialisation: a request handled while pipeline is
\* None never awaits pipeline.process, and the one signal it ends with has
\* status 503 and the detail "Service not initialized".
C29_NotInitialized503 ==
    hd.at # "idle" /\ ~hd.pipeline =>
        /\ hd.at # "await"
        /\ ~hd.returned
        /\ hd.at = "raised" =>
              /\ Len(hd.signals) = 1
              /\ hd.signals[1].status_code = 503
              /\ hd.signals[1].detail = <<"Service not initialized">>

\* --------------------------------------------------------------------------
\* Alpha mattes.  A float in [0, 1] is kept in fixed point, UNIT standing for
\* 1.0; a matte is a function from its pixels (row, column) to such values.

UNIT == 10000

Abs(x) == IF x < 0 THEN -x ELSE x

\* --------------------------------------------------------------------------
\* One call of remove_noise_with_components (rmbg/utils.py; isnet/utils.py
\* holds the same function).

\* The widest matte, in pixels; mattes have two rows.
MaxCols == 3

GridRows == {1, 2}

Grid == GridRows \X (1..MaxCols)

\* Matte values: 0, the threshold itself, and two values above it.
NoiseLevels == {0, 500, 3000, UNIT}

\* NOISE_REMOVAL_THRESHOLD of RmbgSettings, 0.05.
NOISE_REMOVAL_THRESHOLD == 500

\* Values of min_area small enough to lie within the matte.
MinAreas == {1, 2, 3}

Adjacent4(c, d) == Abs(c[1] - d[1]) + Abs(c[2] - d[2]) = 1

\* connectivity=8: two different pixels one step apart in row and column.
Adjacent(c, d) ==
    c # d /\ Abs(c[1] - d[1]) <= 1 /\ Abs(c[2] - d[2]) <= 1

\* binary_mask = (alpha_matte > threshold)
BinaryMask(alpha, threshold) == {c \in DOMAIN alpha : alpha[c] > threshold}

\* The pixels cv2.connectedComponentsWithStats gives the label of the pixels
\* of S: all pixels of the mask joined to S by a chain of adjacent ones.
RECURSIVE Labelled(_, _)
Labelled(S, mask) ==
    LET grown == S \cup {d \in mask : \E c \in S : Adjacent(c, d)}
    IN IF grown = S THEN S ELSE Labelled(grown, mask)

\* clean_mask: 1 on the labels whose area is at least min_area, 0 elsewhere.
CleanMask(alpha, threshold, min_area) ==
    LET mask == BinaryMask(alpha, threshold)
    IN [c \in DOMAIN alpha |->
           IF c \in mask /\ Cardinality(Labelled({c}, mask)) >= min_area
              THEN 1 ELSE 0]

\* cleaned_alpha = alpha_matte * clean_mask
remove_noise_with_components(alpha, threshold, min_area) ==
    LET clean_mask == CleanMask(alpha, threshold, min_area)
    IN [c \in DOMAIN alpha |-> alpha[c] * clean_mask[c]]

InitNoise ==
    /\ InitPipeline
    /\ mt \in {[at |-> "call", alpha_matte |-> a,
                threshold |-> NOISE_REMOVAL_THRESHOLD, min_area |-> m,
                cleaned_alpha |-> <<>>] :
                   a \in [Grid -> NoiseLevels], m \in MinAreas}
    /\ dl = Idle /\ ex = Idle /\ gf = Idle /\ up = Idle /\ hd = Idle
    /\ mm = Idle /\ fl = Idle /\ sv = Idle

NoiseCall ==
    /\ mt.at = "call"
    /\ mt' = [mt EXCEPT !.at = "returned",
                        !.cleaned_alpha =
                            remove_noise_with_components(
                                mt.alpha_matte, mt.threshold, mt.min_area)]
    /\ UNCHANGED <<pipe, dl, ex, gf, up, hd, mm, fl, sv>>

NextNoise == NoiseCall

SpecNoise == InitNoise /\ [][NextNoise]_vars

\* C22 - Connected-noise suppression.  A component is a smallest non-empty
\* set of pixels above the threshold that holds every pixel above the
\* threshold touching it by a side or a corner.  Every pixel of a component
\* of area >= min_area keeps exactly its value; every pixel of a component of
\* area < min_area is 0.
C22_Components ==
    mt.at = "returned" =>
        LET above == {c \in Grid : mt.alpha_matte[c] > mt.threshold}
            Touch(c, d) ==
                c # d /\ c[1] - d[1] \in {-1, 0, 1} /\ c[2] - d[2] \in {-1, 0, 1}
            Closed(S) ==
                /\ S # {}
                /\ S \subseteq above
                /\ \A c \in S : \A d \in above : Touch(c, d) => d \in S
            Component(S) ==
                /\ Closed(S)
                /\ \A T \in SUBSET S : Closed(T) => T = S
        IN \A S \in SUBSET above :
              Component(S) =>
                  /\ Cardinality(S) >= mt.min_area =>
                        \A c \in S : mt.cleaned_alpha[c] = mt.alpha_matte[c]
                  /\ Cardinality(S) < mt.min_area =>
                        \A c \in S : mt.cleaned_alpha[c] = 0

\* Two pixels joined only by a corner are kept with their values under
\* min_area = 2.
C22_Witness ==
    /\ mt.at = "returned"
    /\ mt.min_area = 2
    /\ mt.alpha_matte[<<1, 1>>] = 3000 /\ mt.alpha_matte[<<2, 2>>] = UNIT
    /\ mt.alpha_matte[<<1, 2>>] = 0 /\ mt.alpha_matte[<<2, 1>>] = 500
    /\ mt.alpha_matte[<<1, 3>>] = 0 /\ mt.alpha_matte[<<2, 3>>] = 0
    /\ mt.cleaned_alpha[<<1, 1>>] = 3000 /\ mt.cleaned_alpha[<<2, 2>>] = UNIT

\* --------------------------------------------------------------------------
\* The numpy operations of the refinement functions, on fixed-point values.

\* The longest one-row matte, in pixels.
MaxPixels == 3

\* The pixels of a one-row matte of n pixels.
Row(n) == {1} \X (1..n)

\* Matte values: 0, 0.01, 0.1, 0.25, 0.4, 0.95, 0.97 and 1.
MatteLevels == {0, 100, 1000, 2500, 4000, 9500, 9700, UNIT}

RowMattes == UNION {[Row(n) -> MatteLevels] : n \in 1..MaxPixels}

\* Mattes for a level remap on its own: values at, between and around the
\* bounds 0.1 and 0.4.
RemapMattes ==
    UNION {[Row(n) -> {0, 1000, 2500, 4000, UNIT}] : n \in 1..MaxPixels}

\* Mattes for the RMBG steps: the values of NoiseLevels.
NoiseMattes == UNION {[Row(n) -> NoiseLevels] : n \in 1..MaxPixels}

MinLeft(a, b) == a

\* min(a, b)
Min(a, b) == IF a <= b THEN a ELSE b

Sum(a, b) == a + b

\* np.maximum, on one pixel
Maximum(a, b) == IF a >= b THEN a ELSE b

\* np.clip(x, lo, hi) = minimum(maximum(x, lo), hi)
Clip(x, lo, hi) == Min(Maximum(x, lo), hi)

\* The k-th smallest (k counted from 0) of the values of alpha on sel.
Kth(alpha, sel, k) ==
    CHOOSE v \in {alpha[c] : c \in sel} :
        /\ Cardinality({c \in sel : alpha[c] < v}) <= k
        /\ k < Cardinality({c \in sel : alpha[c] <= v})

\* np.percentile(alpha[sel], p): linear interpolation between the two
\* order statistics around position p / 100 * (n - 1).
Percentile(alpha, sel, p) ==
    LET n == Cardinality(sel)
        pos == p * (n - 1)
        i == pos \div 100
        f == pos % 100
        lo == Kth(alpha, sel, i)
        hi == Kth(alpha, sel, IF i + 1 < n THEN i + 1 ELSE i)
    IN lo + (f * (hi - lo)) \div 100

\* The largest y in lo..hi with y * y <= v.
RECURSIVE SqrtSearch(_, _, _)
SqrtSearch(v, lo, hi) ==
    IF lo = hi THEN lo
    ELSE LET mid == (lo + hi + 1) \div 2
         IN IF mid * mid <= v THEN SqrtSearch(v, mid, hi)
                              ELSE SqrtSearch(v, lo, mid - 1)

\* The square root of a value in [0, 1].
Sqrt(x) == SqrtSearch(x * UNIT, 0, UNIT)

RECURSIVE PowerOf(_, _)
PowerOf(r, q) == IF q = 0 THEN UNIT ELSE (r * PowerOf(r, q - 1)) \div UNIT

\* np.power(x, gamma) for x in [0, 1] and gamma = q / 4: the q-th power of
\* the fourth root.
Power(x, q) == PowerOf(Sqrt(Sqrt(x)), q)

\* Exponents, in quarters: 0.5, 0.75 and 1.
Gammas == {2, 3, 4}

\* --------------------------------------------------------------------------
\* birefnet/utils.py

StepAbove(a, bound) == IF a > bound THEN UNIT ELSE 0

\* np.where(alpha >= input_min, 1.0, 0.0), on one pixel
StepAt(a, bound) == IF a >= bound THEN UNIT ELSE 0

\* abs(input_max - input_min) < 1e-6; 1e-6 is below the resolution of the
\* fixed point, where two different bounds are at least 1e-4 apart.
Degenerate(input_min, input_max) == Abs(input_max - input_min) = 0

alpha_levels_adjustment(alpha, input_min, input_max, gamma) ==
    IF Degenerate(input_min, input_max)
       THEN [c \in DOMAIN alpha |-> StepAt(alpha[c], input_min)]
       ELSE [c \in DOMAIN alpha |->
                LET alpha_clipped == Clip(alpha[c], input_min, input_max)
                    alpha_normalized ==
                        ((alpha_clipped - input_min) * UNIT)
                            \div (input_max - input_min)
                    alpha_gamma_corrected == Power(alpha_normalized, gamma)
                IN IF alpha[c] < input_min THEN alpha[c]
                                           ELSE alpha_gamma_corrected]

\* The divisions one call of alpha_levels_adjustment performs.
LevelsDivisions(input_min, input_max) ==
    IF Degenerate(input_min, input_max) THEN 0 ELSE 1

\* alpha_matte > 0.01
NonTrivial(alpha) == {c \in DOMAIN alpha : alpha[c] > 100}

FallbackZero(core_clamp, boost_clamp) == <<0, 0>>

\* "If the image is entirely black, return default safe values"
Fallback(core_clamp, boost_clamp) == <<core_clamp, boost_clamp>>

get_dynamic_thresholds(alpha, core_percentile, core_clamp, boost_percentile, boost_clamp) ==
    LET non_zero_alpha == NonTrivial(alpha)
    IN IF Cardinality(non_zero_alpha) = 0
          THEN Fallback(core_clamp, boost_clamp)
          ELSE <<Min(Percentile(alpha, non_zero_alpha, core_percentile),
                     core_clamp),
                 Min(Percentile(alpha, non_zero_alpha, boost_percentile),
                     boost_clamp)>>

\* The defaults of BirefnetSettings, with exponents that are whole quarters
\* (0.5 and 0.75) in place of 0.7 and 0.8.
BirefnetDefaults ==
    [CORE_THRESHOLD_PERCENTILE |-> 98,
     BOOST_MAX_PERCENTILE |-> 95,
     CORE_THRESHOLD_CLAMP |-> 9800,
     BOOST_MAX_CLAMP |-> 9700,
     HARD_BOOST_INPUT_MIN |-> 1000,
     HARD_BOOST_INPUT_MAX |-> 4000,
     HARD_BOOST_GAMMA |-> 2,
     SOFT_BOOST_INPUT_MIN |-> 1000,
     SOFT_BOOST_GAMMA |-> 3]

\* Configurations: the defaults, and one with the core percentile at 50 and
\* the bounds of the hard boost equal.
BirefnetSettings ==
    {BirefnetDefaults,
     [BirefnetDefaults EXCEPT !.CORE_THRESHOLD_PERCENTILE = 50,
                              !.HARD_BOOST_INPUT_MAX = 1000]}

\* --------------------------------------------------------------------------
\* isnet/utils.py

\* strength=0.3, in tenths
UNSHARP_STRENGTH == 3

\* apply_unsharp_mask, given the matte cv2.GaussianBlur returns for alpha.
apply_unsharp_mask(alpha, blurred, strength) ==
    [c \in DOMAIN alpha |->
        LET sharpened == alpha[c] + (strength * (alpha[c] - blurred[c])) \div 10
        IN Clip(sharpened, 0, UNIT)]

\* compute_adaptive_thresholds with exclude_threshold=0.05 and the
\* percentiles 75, 40 and 15 of ISNetSettings.
compute_adaptive_thresholds(alpha) ==
    LET foreground == {c \in DOMAIN alpha : alpha[c] > 500}
    IN IF Cardinality(foreground) = 0
          THEN <<6500, 4000, 1500>>
          ELSE <<Percentile(alpha, foreground, 75),
                 Percentile(alpha, foreground, 40),
                 Percentile(alpha, foreground, 15)>>

\* --------------------------------------------------------------------------
\* rmbg/process.py, steps 2 and 3

\* The fields of RmbgSettings (rmbg/config.py) with their defaults;
\* noise removal on or off and small component areas.
RmbgSettings ==
    [MODEL_INPUT_SIZE : {1024},
     USE_NOISE_REMOVAL : BOOLEAN,
     NOISE_REMOVAL_THRESHOLD : {NOISE_REMOVAL_THRESHOLD},
     MIN_COMPONENT_AREA : {1, 2},
     CORE_THRESHOLD : {9000},
     USE_GUIDED_FILTER : {TRUE},
     GUIDED_FILTER_RADIUS : {5},
     GUIDED_FILTER_EPS : {200}]

\* settings.<name> is defined; otherwise the lookup raises AttributeError.
HasAttr(settings, name) == name \in DOMAIN settings

\* The two np.where of step 3, on one pixel.
Tiered(a, lower, core) ==
    LET penumbra == IF a > lower THEN a ELSE 0
    IN IF penumbra > core THEN UNIT ELSE penumbra

\* --------------------------------------------------------------------------
\* One call of a refinement path, on a one-row matte: lines 44-61 of the
\* BiRefNet run, steps 2 and 3 of the RMBG run, alpha_levels_adjustment,
\* apply_unsharp_mask or compute_adaptive_thresholds.

InitBirefnet ==
    {[fn |-> "birefnet", at |-> "call", original_alpha |-> a, settings |-> k,
      core_threshold |-> 0, soft_boost_max |-> 0,
      hard_boost_alpha |-> <<>>, soft_boost_alpha |-> <<>>,
      combined_boosted_alpha |-> <<>>, alpha_final |-> <<>>] :
         a \in RowMattes, k \in BirefnetSettings}

InitRmbg ==
    {[fn |-> "rmbg", at |-> "call", original_alpha |-> a, settings |-> k,
      cleaned_alpha |-> <<>>, processed_alpha |-> <<>>, error |-> ""] :
         a \in NoiseMattes, k \in RmbgSettings}

InitLevels ==
    {[fn |-> "levels", at |-> "call", alpha |-> a, input_min |-> lo,
      input_max |-> hi, gamma |-> g, final_alpha |-> <<>>, divisions |-> 0] :
         a \in RemapMattes, lo \in {1000, 4000}, hi \in {1000, 4000},
         g \in Gammas}

InitUnsharp ==
    {[fn |-> "unsharp", at |-> "call", alpha_matte |-> a, blurred |-> b,
      sharpened |-> <<>>] :
         <<a, b>> \in UNION {[Row(n) -> {0, 4000, UNIT}]
                                \X [Row(n) -> {0, 4000, UNIT}] :
                                    n \in 1..MaxPixels}}

InitAdaptive ==
    {[fn |-> "adaptive", at |-> "call", alpha_matte |-> a,
      thresholds |-> <<>>] : a \in RowMattes}

InitRefine ==
    /\ InitPipeline
    /\ mt \in InitBirefnet \cup InitRmbg \cup InitLevels \cup InitUnsharp
                  \cup InitAdaptive
    /\ dl = Idle /\ ex = Idle /\ gf = Idle /\ up = Idle /\ hd = Idle
    /\ mm = Idle /\ fl = Idle /\ sv = Idle

\* core_threshold, soft_boost_max = get_dynamic_thresholds(...)
BfThresholds ==
    /\ mt.fn = "birefnet" /\ mt.at = "call"
    /\ LET k == mt.settings
           t == get_dynamic_thresholds(
                    mt.original_alpha,
                    k.CORE_THRESHOLD_PERCENTILE, k.CORE_THRESHOLD_CLAMP,
                    k.BOOST_MAX_PERCENTILE, k.BOOST_MAX_CLAMP)
       IN mt' = [mt EXCEPT !.at = "boost", !.core_threshold = t[1],
                           !.soft_boost_max = t[2]]
    /\ UNCHANGED <<pipe, dl, ex, gf, up, hd, mm, fl, sv>>

\* The hard boost, the soft boost and their np.maximum.
BfBoost ==
    /\ mt.fn = "birefnet" /\ mt.at = "boost"
    /\ LET k == mt.settings
           hard == alpha_levels_adjustment(
                       mt.original_alpha, k.HARD_BOOST_INPUT_MIN,
                       k.HARD_BOOST_INPUT_MAX, k.HARD_BOOST_GAMMA)
           soft == alpha_levels_adjustment(
                       mt.original_alpha, k.SOFT_BOOST_INPUT_MIN,
                       mt.soft_boost_max, k.SOFT_BOOST_GAMMA)
       IN mt' = [mt EXCEPT
                    !.at = "core",
                    !.hard_boost_alpha = hard,
                    !.soft_boost_alpha = soft,
                    !.combined_boosted_alpha =
                        [c \in DOMAIN hard |-> Maximum(hard[c], soft[c])]]
    /\ UNCHANGED <<pipe, dl, ex, gf, up, hd, mm, fl, sv>>

\* core_mask, solidified_core, alpha_final
BfCore ==
    /\ mt.fn = "birefnet" /\ mt.at = "core"
    /\ mt' = [mt EXCEPT
                 !.at = "returned",
                 !.alpha_final =
                     [c \in DOMAIN mt.original_alpha |->
                         Maximum(mt.combined_boosted_alpha[c],
                                 StepAt(mt.original_alpha[c],
                                        mt.core_threshold))]]
    /\ UNCHANGED <<pipe, dl, ex, gf, up, hd, mm, fl, sv>>

\* Step 2: cleaned_alpha, with or without the noise removal.
RmNoise ==
    /\ mt.fn = "rmbg" /\ mt.at = "call"
    /\ LET k == mt.settings IN
         mt' = [mt EXCEPT
                   !.at = "step3",
                   !.cleaned_alpha =
                       IF k.USE_NOISE_REMOVAL
                          THEN remove_noise_with_components(
                                   mt.original_alpha,
                                   k.NOISE_REMOVAL_THRESHOLD,
                                   k.MIN_COMPONENT_AREA)
                          ELSE mt.original_alpha]
    /\ UNCHANGED <<pipe, dl, ex, gf, up, hd, mm, fl, sv>>

\* Step 3: settings.PENUMBRA_LOWER_BOUND and settings.CORE_THRESHOLD are
\* looked up and the two np.where applied.
RmThreshold ==
    /\ mt.fn = "rmbg" /\ mt.at = "step3"
    /\ LET k == mt.settings IN
         mt' = IF ~HasAttr(k, "PENUMBRA_LOWER_BOUND")
                  THEN [mt EXCEPT !.at = "raised", !.error = "AttributeError"]
                  ELSE [mt EXCEPT
                          !.at = "returned",
                          !.processed_alpha =
                              [c \in DOMAIN mt.cleaned_alpha |->
                                  Tiered(mt.cleaned_alpha[c],
                                         k.PENUMBRA_LOWER_BOUND,
                                         k.CORE_THRESHOLD)]]
    /\ UNCHANGED <<pipe, dl, ex, gf, up, hd, mm, fl, sv>>

LvCall ==
    /\ mt.fn = "levels" /\ mt.at = "call"
    /\ mt' = [mt EXCEPT
                 !.at = "returned",
                 !.divisions = LevelsDivisions(mt.input_min, mt.input_max),
                 !.final_alpha =
                     alpha_levels_adjustment(mt.alpha, mt.input_min,
                                             mt.input_max, mt.gamma)]
    /\ UNCHANGED <<pipe, dl, ex, gf, up, hd, mm, fl, sv>>

UsCall ==
    /\ mt.fn = "unsharp" /\ mt.at = "call"
    /\ mt' = [mt EXCEPT
                 !.at = "returned",
                 !.sharpened = apply_unsharp_mask(mt.alpha_matte, mt.blurred,
                                                  UNSHARP_STRENGTH)]
    /\ UNCHANGED <<pipe, dl, ex, gf, up, hd, mm, fl, sv>>

AdCall ==
    /\ mt.fn = "adaptive" /\ mt.at = "call"
    /\ mt' = [mt EXCEPT
                 !.at = "returned",
                 !.thresholds = compute_adaptive_thresholds(mt.alpha_matte)]
    /\ UNCHANGED <<pipe, dl, ex, gf, up, hd, mm, fl, sv>>

NextRefine ==
    \/ BfThresholds
    \/ BfBoost
    \/ BfCore
    \/ RmNoise
    \/ RmThreshold
    \/ LvCall
    \/ UsCall
    \/ AdCall

SpecRefine == InitRefine /\ [][NextRefine]_vars

\* --------------------------------------------------------------------------
\* Claims about the matte refinement

InUnit(alpha) == \A c \in DOMAIN alpha : alpha[c] >= 0 /\ alpha[c] <= UNIT

AllZero(alpha) == \A c \in DOMAIN alpha : alpha[c] = 0

Binary(alpha) == \A c \in DOMAIN alpha : alpha[c] \in {0, UNIT}

\* C21: for every matte with values in [0,1] and every configuration, every
\* value of every alpha a refinement path produces lies in [0,1]: the cleaned
\* alpha of the noise suppression, the two level remaps, their maximum and
\* the final alpha of the dual boost, a level remap on its own, the unsharp
\* mask, and the two np.where of the core/penumbra thresholding for any
\* lower bound.
C21_MatteInRange ==
    /\ mt.fn = "birefnet" =>
          /\ InUnit(mt.hard_boost_alpha)
          /\ InUnit(mt.soft_boost_alpha)
          /\ InUnit(mt.combined_boosted_alpha)
          /\ InUnit(mt.alpha_final)
    /\ mt.fn = "rmbg" =>
          /\ InUnit(mt.cleaned_alpha)
          /\ InUnit(mt.processed_alpha)
          /\ \A c \in DOMAIN mt.cleaned_alpha : \A lower \in MatteLevels :
                LET v == Tiered(mt.cleaned_alpha[c], lower,
                                mt.settings.CORE_THRESHOLD)
                IN v >= 0 /\ v <= UNIT
    /\ mt.fn = "levels" => InUnit(mt.final_alpha)
    /\ mt.fn = "unsharp" => InUnit(mt.sharpened)

\* A dual boost that returned a matte with a solidified pixel, a transparent
\* pixel and a boosted pixel short of 1.
C21_Witness ==
    /\ mt.fn = "birefnet" /\ mt.at = "returned"
    /\ \E c, d, f \in DOMAIN mt.alpha_final :
          /\ mt.alpha_final[c] = UNIT /\ mt.original_alpha[c] < UNIT
          /\ mt.alpha_final[d] = 0
          /\ mt.alpha_final[f] > mt.original_alpha[f] /\ mt.alpha_final[f] < UNIT

\* C23: for an all-zero matte, get_dynamic_thresholds returns the two clamps
\* and compute_adaptive_thresholds returns (0.65, 0.40, 0.15), neither
\* raises, and the final alpha of the dual boost is all zero.
C23_AllZeroMatte ==
    /\ (mt.fn = "birefnet" /\ AllZero(mt.original_alpha)) =>
          /\ mt.at \in {"call", "boost", "core", "returned"}
          /\ mt.at # "call" =>
                /\ mt.core_threshold = mt.settings.CORE_THRESHOLD_CLAMP
                /\ mt.soft_boost_max = mt.settings.BOOST_MAX_CLAMP
          /\ mt.at \in {"core", "returned"} =>
                /\ AllZero(mt.hard_boost_alpha)
                /\ AllZero(mt.soft_boost_alpha)
          /\ mt.at = "returned" =>
                /\ DOMAIN mt.alpha_final = DOMAIN mt.original_alpha
                /\ AllZero(mt.alpha_final)
    /\ (mt.fn = "adaptive" /\ AllZero(mt.alpha_matte)) =>
          /\ mt.at \in {"call", "returned"}
          /\ mt.at = "returned" => mt.thresholds = <<6500, 4000, 1500>>

C23_Witness ==
    /\ mt.fn = "birefnet" /\ mt.at = "returned"
    /\ Cardinality(DOMAIN mt.original_alpha) = MaxPixels
    /\ AllZero(mt.original_alpha)
    /\ AllZero(mt.alpha_final)
    /\ mt.core_threshold = 9800

\* C24: the core threshold of the dual boost is the smaller of the
\* percentile of the non-trivial matte values and the clamp, so it never
\* exceeds the clamp, and every pixel whose original value is at least the
\* threshold has final alpha exactly 1.
C24_ClampedCore ==
    (mt.fn = "birefnet" /\ mt.at # "call") =>
        LET k == mt.settings
            nz == NonTrivial(mt.original_alpha)
        IN /\ mt.core_threshold <= k.CORE_THRESHOLD_CLAMP
           /\ nz # {} =>
                 LET pc98 == Percentile(mt.original_alpha, nz,
                                        k.CORE_THRESHOLD_PERCENTILE)
                 IN /\ mt.core_threshold <= pc98
                    /\ mt.core_threshold \in {pc98, k.CORE_THRESHOLD_CLAMP}
           /\ mt.at = "returned" =>
                 \A c \in DOMAIN mt.original_alpha :
                     mt.original_alpha[c] >= mt.core_threshold
                        => mt.alpha_final[c] = UNIT

\* The percentile is 0.95 under a clamp of 0.98, and a pixel of 0.97 is 1.
C24_Witness ==
    /\ mt.fn = "birefnet" /\ mt.at = "returned"
    /\ mt.settings.CORE_THRESHOLD_CLAMP = 9800
    /\ mt.core_threshold = 9500
    /\ \E c \in DOMAIN mt.original_alpha :
          mt.original_alpha[c] = 9700 /\ mt.alpha_final[c] = UNIT
    /\ \E c \in DOMAIN mt.original_alpha : mt.original_alpha[c] < 9500

\* C25: the core/penumbra thresholding of a matte whose values are all 0 or
\* 1 returns the same matte.
C25_BinaryUnchanged ==
    (mt.fn = "rmbg" /\ mt.at \notin {"call", "step3"} /\ Binary(mt.cleaned_alpha))
        => (mt.at = "returned" /\ mt.processed_alpha = mt.cleaned_alpha)

\* C26: when the two bounds of a level remap are equal, the remap returns 1
\* for every pixel at or above the bound and 0 for every pixel below it, and
\* divides nothing.
C26_DegenerateBounds ==
    /\ (mt.fn = "levels" /\ mt.at = "returned" /\ mt.input_min = mt.input_max)
          => /\ mt.divisions = 0
             /\ DOMAIN mt.final_alpha = DOMAIN mt.alpha
             /\ \A c \in DOMAIN mt.alpha :
                   mt.final_alpha[c] =
                       IF mt.alpha[c] >= mt.input_min THEN UNIT ELSE 0
    /\ (/\ mt.fn = "birefnet" /\ mt.at \in {"core", "returned"}
        /\ mt.settings.HARD_BOOST_INPUT_MIN = mt.settings.HARD_BOOST_INPUT_MAX)
          => \A c \in DOMAIN mt.original_alpha :
                mt.hard_boost_alpha[c] =
                    IF mt.original_alpha[c] >= mt.settings.HARD_BOOST_INPUT_MIN
                       THEN UNIT ELSE 0

\* Equal bounds, with a pixel on the bound, one above and one below.
C26_Witness ==
    /\ mt.fn = "levels" /\ mt.at = "returned"
    /\ mt.input_min = mt.input_max
    /\ \E c, d, f \in DOMAIN mt.alpha :
          /\ mt.alpha[c] = mt.input_min /\ mt.final_alpha[c] = UNIT
          /\ mt.alpha[d] > mt.input_min /\ mt.final_alpha[d] = UNIT
          /\ mt.alpha[f] < mt.input_min /\ mt.final_alpha[f] = 0

\* --------------------------------------------------------------------------
\* core/model_manager.py: the ModelManager, from its construction, under any
\* sequence of calls of initialize and cleanup, one call at a time.

\* Number of calls of initialize and cleanup made on the manager.
MaxManagerCalls == 3

\* The value of an attribute that holds no object.
None == "None"

\* The attributes __init__ assigns.  No method of ModelManager assigns any
\* other attribute.
NewManager ==
    [device |-> "device",
     is_initialized |-> FALSE,
     gemini_client |-> None,
     isnet_model |-> None,
     realesrgan_model |-> None]

\* A loader returns, or raises: _init_gemini when GEMINI_API_KEY is not set,
\* _init_isnet and _init_realesrgan when the weights file is missing.
\* _init_isnet can also raise from load_state_dict, after it has assigned
\* self.isnet_model.
LoaderOutcomes == {"ok", "raise", "raise_assigned"}

\* The attributes of model_manager the stage modules read:
\* extractor/process.py:28, rmbg/process.py:22 and 27,
\* birefnet/process.py:34, upscaler/process.py:27.
StageReads ==
    {"gemini_client", "rmbg_processor", "rmbg_model", "birefnet_model",
     "realesrgan_model"}

InitManager ==
    /\ InitPipeline
    /\ mm = [at |-> "idle", obj |-> NewManager, made |-> 0, loads |-> 0,
             last |-> "none", isnet_raised |-> FALSE,
             realesrgan_raised |-> FALSE]
    /\ dl = Idle /\ ex = Idle /\ gf = Idle /\ up = Idle /\ hd = Idle
    /\ mt = Idle /\ fl = Idle /\ sv = Idle

\* if self.is_initialized: return
AlreadyInitialized(obj) == obj.is_initialized

\* initialize is called: it returns at once or goes on to _init_gemini.
MmInitialize ==
    /\ mm.at = "idle" /\ mm.made < MaxManagerCalls
    /\ mm' = IF AlreadyInitialized(mm.obj)
                THEN [mm EXCEPT !.made = @ + 1, !.last = "initialize returned"]
                ELSE [mm EXCEPT !.made = @ + 1, !.at = "init_gemini",
                                !.last = "initialize"]
    /\ UNCHANGED <<pipe, dl, ex, gf, up, hd, mt, fl, sv>>

\* await self._init_gemini()
MmInitGemini(o) ==
    /\ mm.at = "init_gemini"
    /\ o \in {"ok", "raise"}
    /\ mm' = IF o = "ok"
                THEN [mm EXCEPT !.obj.gemini_client = "Client",
                                !.loads = @ + 1,
                                !.isnet_raised = FALSE,
                                !.realesrgan_raised = FALSE,
                                !.at = "init_isnet"]
                ELSE [mm EXCEPT !.at = "idle", !.last = "initialize raised"]
    /\ UNCHANGED <<pipe, dl, ex, gf, up, hd, mt, fl, sv>>

\* The first coroutine of the gather.  It has no await, so it runs to its
\* end before the second begins.
MmInitIsnet(o) ==
    /\ mm.at = "init_isnet"
    /\ mm' = CASE o = "ok" ->
                    [mm EXCEPT !.obj.isnet_model = "ISNetDIS",
                               !.loads = @ + 1, !.at = "init_realesrgan"]
               [] o = "raise_assigned" ->
                    [mm EXCEPT !.obj.isnet_model = "ISNetDIS",
                               !.isnet_raised = TRUE,
                               !.at = "init_realesrgan"]
               [] OTHER ->
                    [mm EXCEPT !.isnet_raised = TRUE,
                               !.at = "init_realesrgan"]
    /\ UNCHANGED <<pipe, dl, ex, gf, up, hd, mt, fl, sv>>

\* The second coroutine of the gather; it runs whatever the first did.
MmInitRealesrgan(o) ==
    /\ mm.at = "init_realesrgan"
    /\ o \in {"ok", "raise"}
    /\ mm' = IF o = "ok"
                THEN [mm EXCEPT !.obj.realesrgan_model = "RealESRGANer",
                                !.loads = @ + 1, !.at = "gathered"]
                ELSE [mm EXCEPT !.realesrgan_raised = TRUE,
                                !.at = "gathered"]
    /\ UNCHANGED <<pipe, dl, ex, gf, up, hd, mt, fl, sv>>

\* initialize resumes from the gather: it raises what a loader raised, or
\* sets is_initialized.
MmInitGathered ==
    /\ mm.at = "gathered"
    /\ mm' = IF mm.isnet_raised \/ mm.realesrgan_raised
                THEN [mm EXCEPT !.at = "idle", !.last = "initialize raised"]
                ELSE [mm EXCEPT !.obj.is_initialized = TRUE,
                                !.at = "idle", !.last = "initialize returned"]
    /\ UNCHANGED <<pipe, dl, ex, gf, up, hd, mt, fl, sv>>

\* cleanup is called and runs to its await: isnet_model.cpu() keeps the
\* model, realesrgan_model becomes None, and with a client it awaits
\* gemini_client.aio.aclose(); without one it goes through to its end.
MmCleanup ==
    /\ mm.at = "idle" /\ mm.made < MaxManagerCalls
    /\ LET released == [mm.obj EXCEPT !.realesrgan_model = None] IN
         mm' = IF mm.obj.gemini_client # None
                  THEN [mm EXCEPT !.made = @ + 1, !.obj = released,
                                  !.at = "aclose", !.last = "cleanup"]
                  ELSE [mm EXCEPT !.made = @ + 1,
                                  !.obj = [released EXCEPT
                                              !.is_initialized = FALSE],
                                  !.last = "cleanup returned"]
    /\ UNCHANGED <<pipe, dl, ex, gf, up, hd, mt, fl, sv>>

\* aclose returns and cleanup sets is_initialized = False, or aclose raises
\* and cleanup raises with it.
MmAclose(o) ==
    /\ mm.at = "aclose"
    /\ o \in {"ok", "raise"}
    /\ mm' = IF o = "ok"
                THEN [mm EXCEPT !.obj.is_initialized = FALSE,
                                !.at = "idle", !.last = "cleanup returned"]
                ELSE [mm EXCEPT !.at = "idle", !.last = "cleanup raised"]
    /\ UNCHANGED <<pipe, dl, ex, gf, up, hd, mt, fl, sv>>

NextManager ==
    \/ MmInitialize
    \/ \E o \in LoaderOutcomes : MmInitGemini(o)
    \/ \E o \in LoaderOutcomes : MmInitIsnet(o)
    \/ \E o \in LoaderOutcomes : MmInitRealesrgan(o)
    \/ MmInitGathered
    \/ MmCleanup
    \/ \E o \in LoaderOutcomes : MmAclose(o)

SpecManager == InitManager /\ [][NextManager]_vars

\* The attribute a stage reads exists on the manager and holds an object.
Loaded(obj, name) == HasAttr(obj, name) /\ obj[name] # None

\* C31 - Models used are models loaded: whenever is_initialized is true,
\* every attribute a pipeline stage reads from the manager has been set and
\* is not None.
C31_ReadsAreLoaded ==
    mm.obj.is_initialized => \A name \in StageReads : Loaded(mm.obj, name)

\* C35 - Model manager lifecycle: is_initialized is true only in states
\* where the extraction client, the segmentation model and the
\* super-resolution model are all loaded.
C35_InitializedOnlyLoaded ==
    mm.obj.is_initialized =>
        /\ mm.obj.gemini_client # None
        /\ mm.obj.isnet_model # None
        /\ mm.obj.realesrgan_model # None

\* C35, second part: a call of initialize made when is_initialized is true
\* loads nothing and changes nothing on the manager.
C35_InitializeOnce ==
    [][(mm.at = "idle" /\ mm.obj.is_initialized /\ mm'.last = "initialize returned"
          /\ mm'.made = mm.made + 1 /\ mm'.at = "idle")
        => (mm'.obj = mm.obj /\ mm'.loads = mm.loads)]_vars

\* C35, third part: when a loader has raised, initialize ends with
\* is_initialized false.
C35_RaiseLeavesFalse ==
    (mm.at = "idle" /\ mm.last = "initialize raised") => ~mm.obj.is_initialized

\* C35, fourth part: after cleanup has returned, is_initialized is false.
C35_CleanupLeavesFalse ==
    (mm.at = "idle" /\ mm.last = "cleanup returned") => ~mm.obj.is_initialized

\* --------------------------------------------------------------------------
\* Work begun after a failure

\* Some unit of work of request r has raised.
HasFailed(r) == \E t \in Tasks : status[r][t] = "err"

\* C32 - No work started after failure: once a unit of work of a request has
\* raised, no call of that request begins executing; calls already running
\* may still end.
C32_NoStartAfterFailure ==
    [][\A r \in Requests : \A t \in Tasks :
          (HasFailed(r) /\ status[r][t] # "running")
              => status'[r][t] # "running"]_vars

\* C32, the part about later stages: once a unit of work has raised, no unit
\* of a later stage is ever created.
C32_NoLaterStage ==
    \A r \in Requests : \A t, t2 \in Tasks :
        (status[r][t] = "err" /\ StageIndex(t2[1]) > StageIndex(t[1]))
            => status[r][t2] = "none"

\* --------------------------------------------------------------------------
\* _save_images (pipeline.py:181-214) called by several requests on one
\* output directory.

\* Instants of the clock per second, and the last instant of a run.
TicksPerSecond == 2

MaxTicks == 3

\* request.id, an integer the client chooses.
Ids == {1, 2}

\* datetime.now().strftime("%Y%m%d_%H%M%S"): the instant cut to its second.
Strftime(now) == now \div TicksPerSecond

\* f"design_{request_id}_{timestamp}_{key}.png" under output_dir: the name
\* is made of these three parts, each of them delimited.
Filename(request_id, timestamp, key) == <<"design", request_id, timestamp, key>>

InitSave ==
    /\ InitPipeline
    /\ \E ids \in [Requests -> Ids] :
          sv = [now |-> 0,
                files |-> {},
                call |-> [r \in Requests |->
                            [at |-> "idle", request_id |-> ids[r],
                             timestamp |-> 0, saved |-> {}]]]
    /\ dl = Idle /\ ex = Idle /\ gf = Idle /\ up = Idle /\ hd = Idle
    /\ mt = Idle /\ mm = Idle /\ fl = Idle

\* Time passes.
SvTick ==
    /\ sv.now < MaxTicks
    /\ sv' = [sv EXCEPT !.now = @ + 1]
    /\ UNCHANGED <<pipe, dl, ex, gf, up, hd, mt, mm, fl>>

\* Request r enters _save_images: the timestamp is taken once and one save
\* task per key is created.
SvEnter(r) ==
    /\ sv.call[r].at = "idle"
    /\ sv' = [sv EXCEPT !.call[r].at = "saving",
                        !.call[r].timestamp = Strftime(sv.now)]
    /\ UNCHANGED <<pipe, dl, ex, gf, up, hd, mt, mm, fl>>

\* A worker thread runs img.save(filepath, "PNG") for key k of request r:
\* the file at that path now holds that image.
SvSave(r, k) ==
    /\ sv.call[r].at = "saving"
    /\ k \notin sv.call[r].saved
    /\ LET c == sv.call[r]
           path == Filename(c.request_id, c.timestamp, k)
       IN sv' = [sv EXCEPT
                    !.call[r].saved = @ \cup {k},
                    !.files = {f \in @ : f.path # path}
                                 \cup {[path |-> path, by |-> r, key |-> k]}]
    /\ UNCHANGED <<pipe, dl, ex, gf, up, hd, mt, mm, fl>>

\* The gather of the save tasks returns and the URLs are built.
SvReturn(r) ==
    /\ sv.call[r].at = "saving"
    /\ sv.call[r].saved = Keys
    /\ sv' = [sv EXCEPT !.call[r].at = "returned"]
    /\ UNCHANGED <<pipe, dl, ex, gf, up, hd, mt, mm, fl>>

NextSave ==
    \/ SvTick
    \/ \E r \in Requests : SvEnter(r)
    \/ \E r \in Requests : \E k \in Keys : SvSave(r, k)
    \/ \E r \in Requests : SvReturn(r)

SpecSave == InitSave /\ [][NextSave]_vars

\* The paths request r has written so far.
PathsOf(r) ==
    {Filename(sv.call[r].request_id, sv.call[r].timestamp, k) :
        k \in sv.call[r].saved}

\* C34 - Output path isolation: two different requests never write the same
\* output file path, and every file a request has written still holds that
\* request's image.
C34_PathIsolation ==
    /\ \A r1 \in Requests : \A r2 \in Requests \ {r1} :
          PathsOf(r1) \cap PathsOf(r2) = {}
    /\ \A r \in Requests : \A k \in sv.call[r].saved :
          [path |-> Filename(sv.call[r].request_id, sv.call[r].timestamp, k),
           by |-> r, key |-> k] \in sv.files

\* C34, the part that holds: requests with different ids, or that took their
\* timestamps in different seconds, never write the same path.
C34_DistinctIdOrSecond ==
    \A r1 \in Requests : \A r2 \in Requests \ {r1} :
        (\/ sv.call[r1].request_id # sv.call[r2].request_id
         \/ sv.call[r1].timestamp # sv.call[r2].timestamp)
            => PathsOf(r1) \cap PathsOf(r2) = {}

\* --------------------------------------------------------------------------
\* The images of one request, from the two URLs to the four fields of the
\* ProcessResponse (pipeline.py:52-83), for every order in which the units
\* of a stage complete.

\* An image is known by the URL it was downloaded from and by the calls it
\* has been through since.
Downloaded(lane) == [url |-> lane, ops |-> <<>>]

Through(img, op) == [img EXCEPT !.ops = Append(@, op)]

\* The order in which a stage hands its units to gather: front_task,
\* back_task in _download_images and _extract_designs, the insertion order
\* of the tasks dictionary in the other three.
LaneSeq == <<"front", "back">>

KeySeq == <<"front_rmbg", "front_birefnet", "back_rmbg", "back_birefnet">>

ArgSeq(s) == IF s \in {"download", "extract"} THEN LaneSeq ELSE KeySeq

Range(seq) == {seq[i] : i \in DOMAIN seq}

IndexOf(seq, x) == CHOOSE i \in DOMAIN seq : seq[i] = x

\* The background-removal module each key of the tasks dictionary calls.
ModelOf(key) ==
    IF key \in {"front_rmbg", "back_rmbg"} THEN "rmbg" ELSE "birefnet"

GatherCompletionOrder(args, done, result) ==
    [i \in DOMAIN args |-> result[done[i]]]

\* asyncio.gather: the list of results, in the order of the awaitables it
\* was given, whatever the order `done` in which they completed.
Gather(args, done, result) == [i \in DOMAIN args |-> result[args[i]]]

\* {key: result for key, result in zip(tasks.keys(), results)}
Zip(keys, results) == [k \in Range(keys) |-> results[IndexOf(keys, k)]]

\* What the call of stage s for unit u returns for its argument.
Call(s, u, arg) ==
    CASE s = "download" -> Downloaded(arg)
      [] s = "extract" -> Through(arg, "extract")
      [] s = "remove" -> Through(arg, ModelOf(u))
      [] s = "upscale" -> Through(arg, "upscale")
      [] OTHER -> arg

\* f"{settings.BASE_URL}/{filepath.name}"
Url(name) == <<"BASE_URL", name>>

\* The arguments of the units of stage s, from the results of the stage
\* before it.
Arguments(s, results) ==
    CASE s = "extract" ->
            [u \in Lanes |-> results[IndexOf(LaneSeq, u)]]
      [] s = "remove" ->
            \* front_extracted, back_extracted = the two results
            [k \in Keys |-> results[IndexOf(LaneSeq, LaneOf(k))]]
      [] OTHER ->
            \* for key, img in the dictionary of the stage before
            Zip(KeySeq, results)

NoResponse == [k \in Keys |-> <<>>]

InitFlow ==
    /\ InitPipeline
    /\ fl = [at |-> "accepted", request_id |-> 1, timestamp |-> 0,
             arg |-> [u \in Lanes |-> u], done |-> <<>>,
             result |-> <<>>, files |-> {}, response |-> NoResponse]
    /\ dl = Idle /\ ex = Idle /\ gf = Idle /\ up = Idle /\ hd = Idle
    /\ mt = Idle /\ mm = Idle /\ sv = Idle

\* process enters _download_images with request.output.front and
\* request.output.back.
FlAccept ==
    /\ fl.at = "accepted"
    /\ fl' = [fl EXCEPT !.at = "download"]
    /\ UNCHANGED <<pipe, dl, ex, gf, up, hd, mt, mm, sv>>

\* Unit u of the current stage returns; a save writes its file.
FlComplete(u) ==
    /\ fl.at \in Stages
    /\ u \in Range(ArgSeq(fl.at)) \ Range(fl.done)
    /\ LET out == Call(fl.at, u, fl.arg[u]) IN
         fl' = [fl EXCEPT
                   !.done = Append(@, u),
                   !.result = [v \in Range(fl.done) \cup {u} |->
                                  IF v = u THEN out ELSE fl.result[v]],
                   !.files = IF fl.at = "save"
                                THEN @ \cup
                                     {[name |-> Filename(fl.request_id,
                                                         fl.timestamp, u),
                                       image |-> fl.arg[u]]}
                                ELSE @]
    /\ UNCHANGED <<pipe, dl, ex, gf, up, hd, mt, mm, sv>>

\* Unit u of the current stage raises: gather raises and process re-raises.
FlRaise(u) ==
    /\ fl.at \in Stages
    /\ u \in Range(ArgSeq(fl.at)) \ Range(fl.done)
    /\ fl' = [fl EXCEPT !.at = "failed"]
    /\ UNCHANGED <<pipe, dl, ex, gf, up, hd, mt, mm, sv>>

\* The gather of a stage before the save returns and the next stage method
\* creates its units.
FlAdvance ==
    /\ fl.at \in Stages \ {"save"}
    /\ Len(fl.done) = Len(ArgSeq(fl.at))
    /\ LET next == StageSeq[StageIndex(fl.at) + 1]
           results == Gather(ArgSeq(fl.at), fl.done, fl.result)
       IN fl' = [fl EXCEPT !.at = next,
                           !.arg = Arguments(next, results),
                           !.done = <<>>,
                           !.result = <<>>]
    /\ UNCHANGED <<pipe, dl, ex, gf, up, hd, mt, mm, sv>>

\* The gather of the saves returns; urls[key] is built from the filepath of
\* that key and the ProcessResponse takes each field from urls.
FlRespond ==
    /\ fl.at = "save"
    /\ Len(fl.done) = Len(KeySeq)
    /\ LET urls == [k \in Keys |->
                      Url(Filename(fl.request_id, fl.timestamp, k))]
       IN fl' = [fl EXCEPT
                    !.at = "responded",
                    !.response = [front_rmbg |-> urls["front_rmbg"],
                                  front_birefnet |-> urls["front_birefnet"],
                                  back_rmbg |-> urls["back_rmbg"],
                                  back_birefnet |-> urls["back_birefnet"]]]
    /\ UNCHANGED <<pipe, dl, ex, gf, up, hd, mt, mm, sv>>

NextFlow ==
    \/ FlAccept
    \/ \E u \in Lanes \cup Keys : FlComplete(u)
    \/ \E u \in Lanes \cup Keys : FlRaise(u)
    \/ FlAdvance
    \/ FlRespond

SpecFlow == InitFlow /\ [][NextFlow]_vars

\* The images stored under the name a URL ends with.
ImagesAt(url) == {f.image : f \in {g \in fl.files : g.name = url[2]}}

====
